---------------------------- MODULE Spec2Model ----------------------------
(***************************************************************************)
(* A model of patroni/utils.py: the Retry helper (Retry.__init__, reset,   *)
(* copy, __call__), the interruptible sleep, the signal handlers and the   *)
(* child reaper.                                                           *)
(*                                                                         *)
(* Time is counted in ticks of 1/100 s, the resolution of the jitter       *)
(* (random.randint(0, max_jitter) / 100.0); delays, deadlines and the      *)
(* clock are whole numbers of ticks.                                       *)
(***************************************************************************)
EXTENDS Integers, FiniteSets, Sequences, TLC

(***************************************************************************)
(* Bounds of the model.                                                    *)
(***************************************************************************)
MaxTries == 2        \* max_tries is drawn from -1 .. MaxTries
MaxDelay == 2        \* delay and max_delay are drawn from 0 .. MaxDelay
MaxBackoff == 2      \* backoff is drawn from 0 .. MaxBackoff
MaxJitter == 1       \* max_jitter (already int(max_jitter * 100)) from 0 .. MaxJitter
MaxDeadline == 2     \* deadline is None or drawn from 0 .. MaxDeadline
MaxTime == 2         \* the clock stops advancing at MaxTime
MaxAttempts == 3     \* cap on _attempts when max_tries = -1 (infinite tries)
MaxPolicies == 2     \* number of Retry objects copy() may bring into existence
MaxInterval == 2     \* sleep(interval) is called with interval in -1 .. MaxInterval
MaxDrain == 2        \* children one reap_children() call can collect
MaxExits == 2        \* cap on the count of sys.exit() calls
MaxExtraDigits == 1  \* fraction digits after the sixth in a timestamp text

\* Python's None for deadline and _cur_stoptime (all real values are >= 0).
None == -1

Min(a, b) == IF a <= b THEN a ELSE b

VARIABLES
    now,                \* time.time(), in ticks
    retry,              \* the Retry objects: object id -> its attributes
    frame,              \* the activation of __call__ on each object (and its history)
    handlers_installed, \* setup_signal_handlers() has run
    ignore_sigterm,     \* module global, line 11
    interrupted_sleep,  \* module global, line 12
    reap_children,      \* module global of lines 13 and 81: "function", "True" or "False"
    main,               \* the main control flow inside utils.sleep / utils.reap_children
    exits,              \* number of sys.exit() calls made by sigterm_handler
    sig,                \* the signal whose handler ran in the latest step, or "none"
    ttl                 \* the call of parse_datetime / calculate_ttl and its result

retryVars == <<retry, frame>>

sigVars == <<handlers_installed, ignore_sigterm, interrupted_sleep, reap_children,
             main, exits, sig>>

vars == <<now, retry, frame, handlers_installed, ignore_sigterm, interrupted_sleep,
          reap_children, main, exits, sig, ttl>>

Policies == 1 .. MaxPolicies

(***************************************************************************)
(*                  parse_datetime and calculate_ttl                       *)
(*                                                                         *)
(* A text is a sequence of one-character strings.  A datetime is a record  *)
(* of its seven fields.                                                    *)
(***************************************************************************)
DigitChars == <<"0", "1", "2", "3", "4", "5", "6", "7", "8", "9">>

IsDigit(c) == \E i \in 1 .. 10 : DigitChars[i] = c

\* int() of one digit character
DigitVal(c) == (CHOOSE i \in 1 .. 10 : DigitChars[i] = c) - 1

\* int(m.group(n)) for the group at positions i .. j of the text
RECURSIVE IntOf(_, _, _)
IntOf(t, i, j) ==
    IF j < i THEN 0 ELSE IntOf(t, i, j - 1) * 10 + DigitVal(t[j])

AllDigits(t, i, j) == \A k \in i .. j : IsDigit(t[k])

(***************************************************************************)
(* _DATE_TIME_RE.match, lines 15-19 and 28: four digits, "-", two digits,  *)
(* "-", two digits, "T", two digits, ":", two digits, ":", two digits,     *)
(* ".", six digits, any number of further digits, "Z", and the end of the  *)
(* text; "$" also matches just before a newline that ends the text.        *)
(***************************************************************************)
Matches(t) ==
    /\ Len(t) >= 27
    /\ AllDigits(t, 1, 4)   /\ t[5] = "-"
    /\ AllDigits(t, 6, 7)   /\ t[8] = "-"
    /\ AllDigits(t, 9, 10)  /\ t[11] = "T"
    /\ AllDigits(t, 12, 13) /\ t[14] = ":"
    /\ AllDigits(t, 15, 16) /\ t[17] = ":"
    /\ AllDigits(t, 18, 19) /\ t[20] = "."
    /\ AllDigits(t, 21, 26)
    /\ \E k \in 27 .. Len(t) :
        /\ AllDigits(t, 27, k - 1)
        /\ t[k] = "Z"
        /\ k = Len(t) \/ (k = Len(t) - 1 /\ t[Len(t)] = "\n")

\* line 31: the dictionary of the seven groups as integers
Groups(t) ==
    [year   |-> IntOf(t, 1, 4),   month  |-> IntOf(t, 6, 7),
     day    |-> IntOf(t, 9, 10),  hour   |-> IntOf(t, 12, 13),
     minute |-> IntOf(t, 15, 16), second |-> IntOf(t, 18, 19),
     microsecond |-> IntOf(t, 21, 26)]

IsLeap(y) == y % 4 = 0 /\ (y % 100 # 0 \/ y % 400 = 0)

DaysInMonth(y, m) ==
    IF m = 2 THEN (IF IsLeap(y) THEN 29 ELSE 28)
    ELSE IF m \in {4, 6, 9, 11} THEN 30 ELSE 31

\* datetime.datetime(**p), line 32, accepts these fields and raises
\* ValueError for all others
ValidDatetime(p) ==
    /\ p.year \in 1 .. 9999
    /\ p.month \in 1 .. 12
    /\ p.day \in 1 .. DaysInMonth(p.year, p.month)
    /\ p.hour \in 0 .. 23
    /\ p.minute \in 0 .. 59
    /\ p.second \in 0 .. 59
    /\ p.microsecond \in 0 .. 999999

NoDatetime ==
    [year |-> 0, month |-> 0, day |-> 0, hour |-> 0, minute |-> 0, second |-> 0,
     microsecond |-> 0]

(***************************************************************************)
(* parse_datetime, lines 22-32.  The result is ("None", -), ("datetime",   *)
(* the datetime) or ("ValueError", -) when the constructor raises.         *)
(***************************************************************************)
parse_datetime(t) ==
    IF ~Matches(t)
    THEN [kind |-> "None", dt |-> NoDatetime]
    ELSE IF ~ValidDatetime(Groups(t))
    THEN [kind |-> "ValueError", dt |-> NoDatetime]
    ELSE [kind |-> "datetime", dt |-> Groups(t)]

\* date.toordinal: days since 0001-01-01 (day 1), proleptic Gregorian
RECURSIVE DaysBeforeMonth(_, _)
DaysBeforeMonth(y, m) ==
    IF m = 1 THEN 0 ELSE DaysBeforeMonth(y, m - 1) + DaysInMonth(y, m - 1)

ToOrdinal(d) ==
    LET y == d.year - 1
    IN  y * 365 + (y \div 4) - (y \div 100) + (y \div 400)
            + DaysBeforeMonth(d.year, d.month) + d.day

SecondOfDay(d) == d.hour * 3600 + d.minute * 60 + d.second

(***************************************************************************)
(* expiration - now, line 48: a timedelta, here its whole seconds          *)
(* (days * 86400 + seconds) and its microseconds, which datetime keeps in  *)
(* 0 .. 999999 (the seconds carry the sign).                               *)
(***************************************************************************)
Timedelta(a, b) ==
    LET s == (ToOrdinal(a) - ToOrdinal(b)) * 86400 + SecondOfDay(a) - SecondOfDay(b)
        u == a.microsecond - b.microsecond
    IN  IF u < 0 THEN [seconds |-> s - 1, microseconds |-> u + 1000000]
                 ELSE [seconds |-> s, microseconds |-> u]

\* int(td.total_seconds()), line 48: int() drops the fraction, towards zero
IntTotalSeconds(td) ==
    IF td.seconds < 0 /\ td.microseconds > 0 THEN td.seconds + 1 ELSE td.seconds

(***************************************************************************)
(* calculate_ttl, lines 35-48.  given is FALSE for calculate_ttl(None);    *)
(* the result is ("None", -), ("int", seconds) or ("ValueError", -).       *)
(***************************************************************************)
calculate_ttl(given, t, utcnow) ==
    IF ~given \/ Len(t) = 0
    THEN [kind |-> "None", seconds |-> 0]
    ELSE LET expiration == parse_datetime(t)
         IN  IF expiration.kind = "ValueError"
             THEN [kind |-> "ValueError", seconds |-> 0]
             ELSE IF expiration.kind = "None"
             THEN [kind |-> "None", seconds |-> 0]
             ELSE [kind |-> "int",
                   seconds |-> IntTotalSeconds(Timedelta(expiration.dt, utcnow))]

(***************************************************************************)
(* The texts given to the two functions: the fields of the docstring's     *)
(* example (2015-06-10T12:56:30.552539016Z) and neighbours of them, valid  *)
(* and not, with either separator, with and without the sixth fraction     *)
(* digit, with 0 .. MaxExtraDigits further digits, and with the endings    *)
(* "Z", nothing, and "Z" plus newline; and the empty text.                 *)
(***************************************************************************)
RECURSIVE Decimal(_, _)
Decimal(n, width) ==
    IF width = 0 THEN << >>
    ELSE Append(Decimal(n \div 10, width - 1), DigitChars[(n % 10) + 1])

ExtraDigits(k) == [i \in 1 .. k |-> DigitChars[((i * 7) % 10) + 1]]

Timestamp(d, sep, width, extra, ending) ==
    Decimal(d.year, 4) \o <<"-">> \o Decimal(d.month, 2) \o <<"-">>
        \o Decimal(d.day, 2) \o <<sep>> \o Decimal(d.hour, 2) \o <<":">>
        \o Decimal(d.minute, 2) \o <<":">> \o Decimal(d.second, 2) \o <<".">>
        \o SubSeq(Decimal(d.microsecond, 6), 1, width) \o ExtraDigits(extra)
        \o ending

FieldChoices ==
    [year : {2015, 0}, month : {6, 13}, day : {10, 31}, hour : {12, 11, 24},
     minute : {56}, second : {30, 29, 60}, microsecond : {552539, 552538}]

Texts ==
    {Timestamp(d, sep, width, extra, ending) :
        d \in FieldChoices, sep \in {"T", " "}, width \in {6, 5},
        extra \in 0 .. MaxExtraDigits,
        ending \in {<<"Z">>, << >>, <<"Z", "\n">>}}
    \cup {<< >>}

\* the values datetime.datetime.utcnow() returns at line 47: around the
\* example's instant, one hour later, and years later
Clocks ==
    {[year |-> 2015, month |-> 6, day |-> 10, hour |-> 12, minute |-> 56,
      second |-> s, microsecond |-> u] :
        s \in {29, 30, 31}, u \in {552538, 552539, 552540}}
    \cup {[year |-> 2015, month |-> 6, day |-> 10, hour |-> 13, minute |-> 56,
           second |-> 30, microsecond |-> 552539],
          [year |-> 2026, month |-> 11, day |-> 2, hour |-> 0, minute |-> 0,
           second |-> 0, microsecond |-> 0]}

(***************************************************************************)
(* ttl: the function called ("none", "parse_datetime", "calculate_ttl"),   *)
(* its argument, the clock it reads, whether it has run, and its results.  *)
(***************************************************************************)
NoTtlCall ==
    [op |-> "none", given |-> FALSE, text |-> << >>, utcnow |-> NoDatetime,
     done |-> FALSE, parsed |-> [kind |-> "None", dt |-> NoDatetime],
     result |-> [kind |-> "None", seconds |-> 0]]

ParseDatetime ==
    /\ ttl.op = "parse_datetime" /\ ~ttl.done
    /\ ttl' = [ttl EXCEPT !.done = TRUE, !.parsed = parse_datetime(ttl.text)]
    /\ UNCHANGED <<now, retryVars, sigVars>>

CalculateTtl ==
    /\ ttl.op = "calculate_ttl" /\ ~ttl.done
    /\ ttl' = [ttl EXCEPT !.done = TRUE,
                          !.result = calculate_ttl(ttl.given, ttl.text, ttl.utcnow)]
    /\ UNCHANGED <<now, retryVars, sigVars>>

(***************************************************************************)
(* Retry.__init__: the attributes of a new object.  max_jitter is the      *)
(* attribute (hundredths of a second), not the constructor argument.       *)
(***************************************************************************)
RetryInit(max_tries, delay, backoff, max_jitter, max_delay, deadline) ==
    [max_tries    |-> max_tries,
     delay        |-> delay,
     backoff      |-> backoff,
     max_jitter   |-> max_jitter,
     max_delay    |-> max_delay,
     attempts     |-> 0,
     cur_delay    |-> delay,
     deadline     |-> deadline,
     cur_stoptime |-> None]

(***************************************************************************)
(* Retry.reset                                                             *)
(***************************************************************************)
resetNoAttempts(r) ==
    [r EXCEPT !.cur_delay = r.delay, !.cur_stoptime = None]

reset(r) ==
    [r EXCEPT !.attempts = 0, !.cur_delay = r.delay, !.cur_stoptime = None]

(***************************************************************************)
(* Retry.copy passes max_jitter = self.max_jitter / 100.0, which the       *)
(* constructor turns back into int(max_jitter * 100).  In IEEE doubles the *)
(* round trip loses one hundredth for the values below (int(0.29 * 100) =  *)
(* 28); the table covers 0 .. 199.                                         *)
(***************************************************************************)
LossyJitter == {29, 57, 58, 113, 114, 115, 116}

JitterRoundTrip(j) == IF j \in LossyJitter THEN j - 1 ELSE j

copyShared(r) == r

copy(r) ==
    RetryInit(r.max_tries, r.delay, r.backoff, JitterRoundTrip(r.max_jitter),
              r.max_delay, r.deadline)

(***************************************************************************)
(* The activation record of __call__ on one object.                        *)
(*   pc       "idle" (no call active), "func" (inside func()),             *)
(*            "sleep" (inside sleep_func())                                *)
(*   outcome  how the latest call ended: "new" (never called), "running",  *)
(*            "returned", "raised" (func's own exception propagated),      *)
(*            "TooManyAttempts", "ExceededDeadline" (RetryFailedError)     *)
(*   last     what the latest invocation of func did: "none" (still in    *)
(*            it), "ok", "retryable", "fatal"                              *)
(*   reused   the latest call is not the first one made on the object      *)
(*   start    the clock when the latest call began                         *)
(*   calls    invocations of func in the latest call                       *)
(*   sleeps   invocations of sleep_func in the latest call                 *)
(*   sleeptime  the latest value of the local sleeptime (line 159)         *)
(***************************************************************************)
NewFrame ==
    [pc |-> "idle", outcome |-> "new", last |-> "none", reused |-> FALSE,
     start |-> 0, calls |-> 0, sleeps |-> 0, sleeptime |-> 0]

Terminal == {"returned", "raised", "TooManyAttempts", "ExceededDeadline"}

(***************************************************************************)
(* Lines 151-152: the stop time is computed once, before the first         *)
(* attempt of a call, and only when a deadline is configured.              *)
(***************************************************************************)
StopTimeEveryAttempt(r, t) ==
    IF r.deadline # None THEN t + r.deadline ELSE r.cur_stoptime

StopTime(r, t) ==
    IF r.deadline # None /\ r.cur_stoptime = None
    THEN t + r.deadline
    ELSE r.cur_stoptime

(***************************************************************************)
(* Line 154: the except clause catches only retry_exceptions.              *)
(***************************************************************************)
CaughtAlways(retryable) == TRUE

Caught(retryable) == retryable

(***************************************************************************)
(* Line 156: the attempt budget is spent (max_tries = -1 never matches).   *)
(***************************************************************************)
OutOfTriesLate(r) == r.attempts > r.max_tries

OutOfTries(r) == r.attempts = r.max_tries

(***************************************************************************)
(* Line 161: the sleep would end at or after the stop time.                *)
(***************************************************************************)
PastDeadlineStrict(r, t, sleeptime) ==
    r.cur_stoptime # None /\ t + sleeptime > r.cur_stoptime

PastDeadline(r, t, sleeptime) ==
    r.cur_stoptime # None /\ t + sleeptime >= r.cur_stoptime

(***************************************************************************)
(* Line 165: the delay of the next round.                                  *)
(***************************************************************************)
NextDelay(r) == Min(r.cur_delay * r.backoff, r.max_delay)

(***************************************************************************)
(* Lines 150-153: one pass through the try block up to the call of func.   *)
(***************************************************************************)
Attempt(r, t) == [r EXCEPT !.cur_stoptime = StopTime(r, t)]

(***************************************************************************)
(* Retry.__call__, lines 147-153: reset, then the first attempt.  A Retry  *)
(* object is used by one control flow at a time, so a call starts only     *)
(* when no call is active on it.                                           *)
(***************************************************************************)
Call(p) ==
    /\ p \in DOMAIN retry
    /\ frame[p].pc = "idle"
    /\ retry' = [retry EXCEPT ![p] = Attempt(reset(retry[p]), now)]
    /\ frame' = [frame EXCEPT ![p] =
                    [pc |-> "func", outcome |-> "running", last |-> "none",
                     reused |-> frame[p].outcome # "new", start |-> now, calls |-> 1,
                     sleeps |-> 0, sleeptime |-> 0]]
    /\ UNCHANGED <<now, ttl, sigVars>>

(***************************************************************************)
(* Line 153: func returns; __call__ returns its result.                    *)
(***************************************************************************)
FuncReturns(p) ==
    /\ p \in DOMAIN retry
    /\ frame[p].pc = "func"
    /\ frame' = [frame EXCEPT ![p].pc = "idle", ![p].outcome = "returned",
                              ![p].last = "ok"]
    /\ UNCHANGED <<now, ttl, retry, sigVars>>

(***************************************************************************)
(* Lines 153-164: func raises.  An exception the except clause does not    *)
(* catch leaves __call__ at once.  A caught one ends the call with         *)
(* RetryFailedError when the budget is spent or the sleep would cross the  *)
(* stop time, and otherwise calls sleep_func(sleeptime).                   *)
(***************************************************************************)
FuncRaisesWith(p, retryable) ==
    /\ p \in DOMAIN retry
    /\ frame[p].pc = "func"
    /\ LET r    == retry[p]
           kind == IF retryable THEN "retryable" ELSE "fatal"
       IN  IF ~Caught(retryable)
           THEN /\ frame' = [frame EXCEPT ![p].pc = "idle", ![p].outcome = "raised",
                                          ![p].last = kind]
                /\ UNCHANGED retry
           ELSE IF OutOfTries(r)
           THEN /\ frame' = [frame EXCEPT ![p].pc = "idle",
                                          ![p].outcome = "TooManyAttempts",
                                          ![p].last = kind]
                /\ UNCHANGED retry
           ELSE /\ retry' = [retry EXCEPT ![p].attempts = r.attempts + 1]
                /\ \E jitter \in 0 .. r.max_jitter :
                     LET sleeptime == r.cur_delay + jitter
                     IN  IF PastDeadline(r, now, sleeptime)
                         THEN frame' = [frame EXCEPT ![p].pc = "idle",
                                                    ![p].outcome = "ExceededDeadline",
                                                    ![p].last = kind,
                                                    ![p].sleeptime = sleeptime]
                         ELSE /\ r.attempts < MaxAttempts
                              /\ frame' = [frame EXCEPT ![p].pc = "sleep",
                                                       ![p].last = kind,
                                                       ![p].sleeps = @ + 1,
                                                       ![p].sleeptime = sleeptime]
    /\ UNCHANGED <<now, ttl, sigVars>>

\* func raises any exception
FuncRaises(p) == \E retryable \in BOOLEAN : FuncRaisesWith(p, retryable)

(***************************************************************************)
(* Lines 164-165 and 149-153: sleep_func returns, the delay of the next    *)
(* round is computed and func is called again.  sleep_func is a parameter  *)
(* of the object: the model lets it return after any amount of time.       *)
(***************************************************************************)
SleepReturns(p) ==
    /\ p \in DOMAIN retry
    /\ frame[p].pc = "sleep"
    /\ retry' = [retry EXCEPT ![p] =
                    Attempt([retry[p] EXCEPT !.cur_delay = NextDelay(retry[p])], now)]
    /\ frame' = [frame EXCEPT ![p].pc = "func", ![p].last = "none",
                              ![p].calls = @ + 1]
    /\ UNCHANGED <<now, ttl, sigVars>>

(***************************************************************************)
(* Retry.copy on object p; the clone gets the next free object id.         *)
(***************************************************************************)
Copy(p) ==
    /\ p \in DOMAIN retry
    /\ \E q \in Policies \ DOMAIN retry :
        /\ q = Cardinality(DOMAIN retry) + 1
        /\ retry' = (q :> copy(retry[p])) @@ retry
        /\ frame' = (q :> NewFrame) @@ frame
    /\ UNCHANGED <<now, ttl, sigVars>>

(***************************************************************************)
(* The clock advances.                                                     *)
(***************************************************************************)
Tick ==
    /\ now < MaxTime
    /\ now' = now + 1
    /\ sig' = "none"
    /\ UNCHANGED <<ttl, retry, frame, handlers_installed, ignore_sigterm,
                   interrupted_sleep, reap_children, main, exits>>

(***************************************************************************)
(*                 Signals, sleep and reap_children                        *)
(*                                                                         *)
(* The main control flow is inside utils.sleep, inside                     *)
(* utils.reap_children, or in the host's code ("host").  Its steps are the *)
(* statements of the two functions; a signal handler runs between any two  *)
(* of them, and while time.sleep blocks.                                   *)
(*   pc       "host", the line about to run ("L67" .. "L92"), "time.sleep" *)
(*            (blocked in line 69)                                         *)
(*   sleep    how the latest sleep() ended: "none", "running", "returned", *)
(*            "SystemExit"                                                 *)
(*   reap     how the latest reap_children() ended: "none", "running",     *)
(*            "returned", "TypeError" (the name was not callable),         *)
(*            "OSError", "SystemExit"                                      *)
(*   interval, called_at, ret_at   argument and clock at call and return   *)
(*            of the latest sleep()                                        *)
(*   current_time, end_time        locals of sleep()                       *)
(*   wake_at  the clock at which the time.sleep in progress is over        *)
(*   woken    a signal handler ran during the time.sleep in progress       *)
(*   term_in_sleep, chld_in_sleep   a SIGTERM, a SIGCHLD arrived during    *)
(*            the latest sleep()                                           *)
(*   waitpids os.waitpid calls made by the latest reap_children()          *)
(*   ret      what the latest os.waitpid did: "none" (not called), "child",*)
(*            "(0, 0)", "OSError"                                          *)
(*   undrained       a SIGCHLD was handled and os.waitpid has not been     *)
(*            called since                                                 *)
(*   chld_since_reap a SIGCHLD was handled since the process started or    *)
(*            since the latest reap_children() returned                    *)
(***************************************************************************)
HostFrame ==
    [pc |-> "host", sleep |-> "none", reap |-> "none", interval |-> 0,
     called_at |-> 0, ret_at |-> 0, current_time |-> 0, end_time |-> 0,
     wake_at |-> 0, woken |-> FALSE, term_in_sleep |-> FALSE,
     chld_in_sleep |-> FALSE, waitpids |-> 0, ret |-> "none",
     undrained |-> FALSE, chld_since_reap |-> FALSE]

SleepPcs == {"L67", "L68", "L69", "time.sleep", "L70", "L72", "L73"}

ReapPcs == {"L83", "L86", "L90", "L92"}

(***************************************************************************)
(* The module's globals once it is imported: lines 11-13, and line 81,     *)
(* where def reap_children rebinds the name of line 13 to the function.    *)
(***************************************************************************)
ModuleInit ==
    /\ handlers_installed = FALSE
    /\ ignore_sigterm = FALSE
    /\ interrupted_sleep = FALSE
    /\ reap_children = "function"
    /\ main = HostFrame
    /\ exits = 0
    /\ sig = "none"

\* Python's truth value of the global reap_children (a function is true).
Truthy(v) == v # "False"

(***************************************************************************)
(* setup_signal_handlers, lines 76-78                                      *)
(***************************************************************************)
SetupSignalHandlers ==
    /\ main.pc = "host"
    /\ ~handlers_installed
    /\ handlers_installed' = TRUE
    /\ sig' = "none"
    /\ UNCHANGED <<now, ttl, retryVars, ignore_sigterm, interrupted_sleep, reap_children,
                   main, exits>>

(***************************************************************************)
(* sigterm_handler, lines 51-55.  sys.exit() raises SystemExit in the main *)
(* control flow at the point the handler interrupted: nothing in sleep()   *)
(* catches it; in reap_children() the finally clause of line 91 runs when  *)
(* the flow is inside the try statement (lines 85-90).  SystemExit leaves  *)
(* the function and unwinds into the host, whose clean-up code may still   *)
(* call sleep() and reap_children() while the process exits.  A handler    *)
(* that returns normally still ends a time.sleep in progress.              *)
(***************************************************************************)
TermGuardNone(flag) == TRUE

TermGuard(flag) == ~flag

InTry(pc) == pc \in {"L86", "L90"}

SigtermHandler ==
    /\ handlers_installed
    /\ sig' = "SIGTERM"
    /\ IF TermGuard(ignore_sigterm)
       THEN /\ exits < MaxExits
            /\ ignore_sigterm' = TRUE
            /\ exits' = exits + 1
            /\ reap_children' = IF InTry(main.pc) THEN "False" ELSE reap_children
            /\ main' = [main EXCEPT
                          !.pc = "host",
                          !.sleep = IF main.pc \in SleepPcs THEN "SystemExit" ELSE @,
                          !.reap = IF main.pc \in ReapPcs THEN "SystemExit" ELSE @,
                          !.term_in_sleep = IF main.pc \in SleepPcs THEN TRUE ELSE @,
                          !.woken = FALSE]
       ELSE /\ main' = [main EXCEPT
                          !.woken = IF main.pc = "time.sleep" THEN TRUE ELSE @,
                          !.term_in_sleep = IF main.pc \in SleepPcs THEN TRUE ELSE @]
            /\ UNCHANGED <<ignore_sigterm, exits, reap_children>>
    /\ UNCHANGED <<now, ttl, retryVars, handlers_installed, interrupted_sleep>>

(***************************************************************************)
(* sigchld_handler, lines 58-60                                            *)
(***************************************************************************)
SigchldHandlerInterruptsOnly ==
    /\ handlers_installed
    /\ sig' = "SIGCHLD"
    /\ interrupted_sleep' = TRUE
    /\ main' = [main EXCEPT !.woken = IF main.pc = "time.sleep" THEN TRUE ELSE @,
                            !.chld_in_sleep = IF main.pc \in SleepPcs THEN TRUE ELSE @,
                            !.undrained = TRUE, !.chld_since_reap = TRUE]
    /\ UNCHANGED <<now, ttl, retryVars, handlers_installed, ignore_sigterm, exits,
                   reap_children>>

SigchldHandler ==
    /\ handlers_installed
    /\ sig' = "SIGCHLD"
    /\ reap_children' = "True"
    /\ interrupted_sleep' = TRUE
    /\ main' = [main EXCEPT !.woken = IF main.pc = "time.sleep" THEN TRUE ELSE @,
                            !.chld_in_sleep = IF main.pc \in SleepPcs THEN TRUE ELSE @,
                            !.undrained = TRUE, !.chld_since_reap = TRUE]
    /\ UNCHANGED <<now, ttl, retryVars, handlers_installed, ignore_sigterm, exits>>

(***************************************************************************)
(* sleep(interval), lines 63-73, statement by statement.                   *)
(***************************************************************************)
SleepCall ==
    /\ main.pc = "host"
    /\ \E interval \in -1 .. MaxInterval :
        main' = [main EXCEPT !.pc = "L67", !.sleep = "running",
                             !.interval = interval, !.called_at = now, !.ret_at = 0,
                             !.current_time = now, !.end_time = now + interval,
                             !.term_in_sleep = FALSE, !.chld_in_sleep = FALSE]
    /\ sig' = "none"
    /\ UNCHANGED <<now, ttl, retryVars, handlers_installed, ignore_sigterm,
                   interrupted_sleep, reap_children, exits>>

\* line 67: while current_time < end_time
SleepWhile ==
    /\ main.pc = "L67"
    /\ main' = [main EXCEPT
                  !.pc = IF main.current_time < main.end_time THEN "L68" ELSE "L73"]
    /\ sig' = "none"
    /\ UNCHANGED <<now, ttl, retryVars, handlers_installed, ignore_sigterm,
                   interrupted_sleep, reap_children, exits>>

\* line 68: interrupted_sleep = False
SleepClear ==
    /\ main.pc = "L68"
    /\ interrupted_sleep' = FALSE
    /\ main' = [main EXCEPT !.pc = "L69"]
    /\ sig' = "none"
    /\ UNCHANGED <<now, ttl, retryVars, handlers_installed, ignore_sigterm,
                   reap_children, exits>>

\* line 69: time.sleep(end_time - current_time) begins
TimeSleepBegin ==
    /\ main.pc = "L69"
    /\ main' = [main EXCEPT !.pc = "time.sleep",
                            !.wake_at = now + (main.end_time - main.current_time),
                            !.woken = FALSE]
    /\ sig' = "none"
    /\ UNCHANGED <<now, ttl, retryVars, handlers_installed, ignore_sigterm,
                   interrupted_sleep, reap_children, exits>>

\* line 69: time.sleep returns, when its time is over or after a signal
\* handler has run (Python 2.7, 3.3, 3.4: a caught signal ends the sleep)
TimeSleepEnd ==
    /\ main.pc = "time.sleep"
    /\ now >= main.wake_at \/ main.woken
    /\ main' = [main EXCEPT !.pc = "L70", !.wake_at = 0, !.woken = FALSE]
    /\ sig' = "none"
    /\ UNCHANGED <<now, ttl, retryVars, handlers_installed, ignore_sigterm,
                   interrupted_sleep, reap_children, exits>>

\* line 70: the loop goes on only when the interrupted flag is raised
SleepAgainNever(interrupted) == FALSE

SleepAgain(interrupted) == interrupted

\* lines 70-71: if not interrupted_sleep: break
SleepCheck ==
    /\ main.pc = "L70"
    /\ main' = [main EXCEPT
                  !.pc = IF SleepAgain(interrupted_sleep) THEN "L72" ELSE "L73"]
    /\ sig' = "none"
    /\ UNCHANGED <<now, ttl, retryVars, handlers_installed, ignore_sigterm,
                   interrupted_sleep, reap_children, exits>>

\* line 72: current_time = time.time()
SleepReadClock ==
    /\ main.pc = "L72"
    /\ main' = [main EXCEPT !.pc = "L67", !.current_time = now]
    /\ sig' = "none"
    /\ UNCHANGED <<now, ttl, retryVars, handlers_installed, ignore_sigterm,
                   interrupted_sleep, reap_children, exits>>

\* line 73: interrupted_sleep = False, and sleep() returns
SleepExit ==
    /\ main.pc = "L73"
    /\ interrupted_sleep' = FALSE
    /\ main' = [main EXCEPT !.pc = "host", !.sleep = "returned", !.ret_at = now,
                            !.current_time = 0, !.end_time = 0]
    /\ sig' = "none"
    /\ UNCHANGED <<now, ttl, retryVars, handlers_installed, ignore_sigterm,
                   reap_children, exits>>

(***************************************************************************)
(* reap_children(), lines 81-92.  The host calls it either through the     *)
(* module attribute (utils.reap_children(), which looks the global up at   *)
(* every call) or through a reference to the function taken at import      *)
(* (from patroni.utils import reap_children).                              *)
(***************************************************************************)
ReapCallByName ==
    /\ main.pc = "host"
    /\ IF reap_children = "function"
       THEN main' = [main EXCEPT !.pc = "L83", !.reap = "running",
                                 !.waitpids = 0, !.ret = "none"]
       ELSE main' = [main EXCEPT !.reap = "TypeError", !.waitpids = 0, !.ret = "none"]
    /\ sig' = "none"
    /\ UNCHANGED <<now, ttl, retryVars, handlers_installed, ignore_sigterm,
                   interrupted_sleep, reap_children, exits>>

ReapCallByReference ==
    /\ main.pc = "host"
    /\ main' = [main EXCEPT !.pc = "L83", !.reap = "running",
                            !.waitpids = 0, !.ret = "none"]
    /\ sig' = "none"
    /\ UNCHANGED <<now, ttl, retryVars, handlers_installed, ignore_sigterm,
                   interrupted_sleep, reap_children, exits>>

\* line 83: if reap_children
ReapTest ==
    /\ main.pc = "L83"
    /\ main' = IF Truthy(reap_children)
               THEN [main EXCEPT !.pc = "L86"]
               ELSE [main EXCEPT !.pc = "host", !.reap = "returned",
                                 !.chld_since_reap = FALSE]
    /\ sig' = "none"
    /\ UNCHANGED <<now, ttl, retryVars, handlers_installed, ignore_sigterm,
                   interrupted_sleep, reap_children, exits>>

\* line 89: the except clause catches OSError
CatchesNothing(exc) == FALSE

Catches(exc) == exc = "OSError"

\* lines 85-88: os.waitpid(-1, os.WNOHANG) returns an exited child (the loop
\* goes on), returns (0, 0) (break), or raises OSError (no child at all).
\* break and a caught OSError go on to the finally clause; an exception the
\* except clause does not catch passes through the finally clause and out.
Waitpid ==
    /\ main.pc = "L86"
    /\ \E ret \in {"child", "(0, 0)", "OSError"} :
        /\ ret = "child" => main.waitpids < MaxDrain
        /\ IF ret = "OSError" /\ ~Catches(ret)
           THEN /\ main' = [main EXCEPT !.pc = "host", !.reap = ret,
                                        !.waitpids = @ + 1, !.ret = ret,
                                        !.undrained = FALSE]
                /\ reap_children' = "False"
           ELSE /\ main' = [main EXCEPT
                              !.pc = CASE ret = "child"  -> "L86"
                                       [] ret = "(0, 0)" -> "L92"
                                       [] OTHER          -> "L90",
                              !.waitpids = @ + 1, !.ret = ret,
                              !.undrained = FALSE]
                /\ UNCHANGED reap_children
    /\ sig' = "none"
    /\ UNCHANGED <<now, ttl, retryVars, handlers_installed, ignore_sigterm,
                   interrupted_sleep, exits>>

\* line 92: the value the finally clause stores in the global
FinallyKeeps(v) == v

FinallyStores(v) == "False"

\* lines 89-92: except OSError: pass, then the finally clause, then return
ReapExcept ==
    /\ main.pc = "L90"
    /\ reap_children' = FinallyStores(reap_children)
    /\ main' = [main EXCEPT !.pc = "host", !.reap = "returned",
                            !.chld_since_reap = FALSE]
    /\ sig' = "none"
    /\ UNCHANGED <<now, ttl, retryVars, handlers_installed, ignore_sigterm,
                   interrupted_sleep, exits>>

\* lines 91-92 after break: the finally clause, then return
ReapFinally ==
    /\ main.pc = "L92"
    /\ reap_children' = FinallyStores(reap_children)
    /\ main' = [main EXCEPT !.pc = "host", !.reap = "returned",
                            !.chld_since_reap = FALSE]
    /\ sig' = "none"
    /\ UNCHANGED <<now, ttl, retryVars, handlers_installed, ignore_sigterm,
                   interrupted_sleep, exits>>

(***************************************************************************)
(* The configurations a Retry object is constructed with.                  *)
(***************************************************************************)
Configs ==
    {RetryInit(mt, d, b, j, md, dl) :
        mt \in -1 .. MaxTries, d \in 0 .. MaxDelay, b \in 0 .. MaxBackoff,
        j \in 0 .. MaxJitter, md \in 0 .. MaxDelay,
        dl \in {None} \cup (0 .. MaxDeadline)}

(***************************************************************************)
(* SpecRetry: one Retry object of any configuration, called repeatedly.    *)
(***************************************************************************)
InitRetry ==
    /\ now = 0
    /\ \E c \in Configs : retry = (1 :> c)
    /\ frame = (1 :> NewFrame)
    /\ ModuleInit
    /\ ttl = NoTtlCall

NextRetry ==
    \/ \E p \in Policies : Call(p)
    \/ \E p \in Policies : FuncReturns(p)
    \/ \E p \in Policies : FuncRaises(p)
    \/ \E p \in Policies : SleepReturns(p)
    \/ Tick

SpecRetry == InitRetry /\ [][NextRetry]_vars

(***************************************************************************)
(* SpecClone: a Retry object and the clones copy() makes of it, each run   *)
(* by its own control flow, in any interleaving.  The original is built    *)
(* with one retry and a growing delay, with and without a deadline.        *)
(***************************************************************************)
CloneConfigs ==
    {c \in Configs :
        /\ c.max_tries = 1 /\ c.delay = 1 /\ c.backoff = 2
        /\ c.max_jitter = 0 /\ c.max_delay = 2
        /\ c.deadline \in {None, MaxDeadline}}

InitClone ==
    /\ now = 0
    /\ \E c \in CloneConfigs : retry = (1 :> c)
    /\ frame = (1 :> NewFrame)
    /\ ModuleInit
    /\ ttl = NoTtlCall

NextClone ==
    \/ \E p \in Policies : Call(p)
    \/ \E p \in Policies : FuncReturns(p)
    \/ \E p \in Policies : FuncRaises(p)
    \/ \E p \in Policies : SleepReturns(p)
    \/ \E p \in Policies : Copy(p)
    \/ Tick

SpecClone == InitClone /\ [][NextClone]_vars

(***************************************************************************)
(* SpecSignal: the process after import, with no Retry object: the host    *)
(* installs the handlers and calls sleep() and reap_children() one after   *)
(* another while SIGTERM and SIGCHLD arrive at any point.                  *)
(***************************************************************************)
InitSignal ==
    /\ now = 0
    /\ retry = << >>
    /\ frame = << >>
    /\ ModuleInit
    /\ ttl = NoTtlCall

NextSignal ==
    \/ SetupSignalHandlers
    \/ SigtermHandler
    \/ SigchldHandler
    \/ SleepCall
    \/ SleepWhile
    \/ SleepClear
    \/ TimeSleepBegin
    \/ TimeSleepEnd
    \/ SleepCheck
    \/ SleepReadClock
    \/ SleepExit
    \/ ReapCallByName
    \/ ReapCallByReference
    \/ ReapTest
    \/ Waitpid
    \/ ReapExcept
    \/ ReapFinally
    \/ Tick

SpecSignal == InitSignal /\ [][NextSignal]_vars

(***************************************************************************)
(* SpecLive: one Retry object with a deadline, called with a func that     *)
(* raises a retryable exception at every call.  func and sleep_func return *)
(* and the clock advances: weak fairness of the three steps.  The clock of *)
(* the model stops at MaxTime, so a call starts only when its stop time is *)
(* a value the clock reaches.                                              *)
(***************************************************************************)
LiveConfigs == {c \in Configs : c.deadline # None}

LiveCall(p) ==
    /\ p \in DOMAIN retry
    /\ now + retry[p].deadline <= MaxTime
    /\ Call(p)

FuncFails(p) == FuncRaisesWith(p, TRUE)

InitLive ==
    /\ now = 0
    /\ \E c \in LiveConfigs : retry = (1 :> c)
    /\ frame = (1 :> NewFrame)
    /\ ModuleInit
    /\ ttl = NoTtlCall

NextLive ==
    \/ LiveCall(1)
    \/ FuncFails(1)
    \/ SleepReturns(1)
    \/ Tick

SpecLive ==
    /\ InitLive /\ [][NextLive]_vars
    /\ WF_vars(FuncFails(1)) /\ WF_vars(SleepReturns(1)) /\ WF_vars(Tick)

(***************************************************************************)
(* SpecTtl: one call of parse_datetime or calculate_ttl on any of the      *)
(* texts (calculate_ttl also on None), at any of the clock values.         *)
(***************************************************************************)
InitTtl ==
    /\ now = 0
    /\ retry = << >>
    /\ frame = << >>
    /\ ModuleInit
    /\ \/ \E t \in Texts :
            ttl = [NoTtlCall EXCEPT !.op = "parse_datetime", !.given = TRUE,
                                    !.text = t]
       \/ \E t \in Texts, c \in Clocks, given \in BOOLEAN :
            /\ ~given => t = << >>
            /\ ttl = [NoTtlCall EXCEPT !.op = "calculate_ttl", !.given = given,
                                       !.text = t, !.utcnow = c]

NextTtl ==
    \/ ParseDatetime
    \/ CalculateTtl

SpecTtl == InitTtl /\ [][NextTtl]_vars

(***************************************************************************)
(*                        Claims about Retry                               *)
(***************************************************************************)
RECURSIVE Pow(_, _)
Pow(b, i) == IF i = 0 THEN 1 ELSE b * Pow(b, i - 1)

\* C1: with a finite max_tries = N >= 0 and no deadline, one call of
\* __call__ invokes func at most N+1 times, and a call whose every
\* invocation of func failed retryably has ended with RetryFailedError
\* "Too many retry attempts" after exactly N+1 invocations and N sleeps.
C1_ExactlyNPlusOneCalls ==
    \A p \in DOMAIN retry :
        LET r == retry[p]
            f == frame[p]
        IN  (r.max_tries >= 0 /\ r.deadline = None) =>
                /\ f.calls <= r.max_tries + 1
                /\ (f.pc = "idle" /\ f.last = "retryable") =>
                        /\ f.outcome = "TooManyAttempts"
                        /\ f.calls = r.max_tries + 1
                        /\ f.sleeps = r.max_tries

C1_Witness ==
    \E p \in DOMAIN retry :
        /\ retry[p].max_tries = MaxTries /\ retry[p].deadline = None
        /\ frame[p].outcome = "TooManyAttempts"
        /\ frame[p].calls = MaxTries + 1 /\ frame[p].sleeps = MaxTries

\* C2: with a deadline D configured and a call started at time s, the stop
\* time is s + D throughout the call; after a retryable failure with budget
\* left, sleep_func is called only with now + sleeptime < s + D, and when
\* now + sleeptime >= s + D the call ends with RetryFailedError "Exceeded
\* retry deadline" without sleeping.
C2_StopTimeFixed ==
    \A p \in DOMAIN retry :
        (retry[p].deadline # None /\ frame[p].outcome # "new") =>
            retry[p].cur_stoptime = frame[p].start + retry[p].deadline

C2_SleepStep ==
    \A p \in DOMAIN retry :
        LET r == retry[p]
            f == frame[p]
            g == frame'[p]
        IN  (f.pc = "func" /\ g.last = "retryable" /\ r.deadline # None
                /\ r.attempts # r.max_tries) =>
                IF now + g.sleeptime >= f.start + r.deadline
                THEN g.outcome = "ExceededDeadline" /\ g.pc = "idle"
                        /\ g.sleeps = f.sleeps
                ELSE g.pc = "sleep" /\ g.sleeps = f.sleeps + 1

C2_NeverSleepsPastDeadline == [](C2_StopTimeFixed) /\ [][C2_SleepStep]_vars

C2_Witness ==
    \E p \in DOMAIN retry :
        /\ retry[p].deadline # None
        /\ frame[p].outcome = "ExceededDeadline"
        /\ frame[p].sleeps >= 1
        /\ frame[p].start >= 1
        /\ retry[p].attempts <= retry[p].max_tries

\* C3: a failure of func that the except clause does not accept leaves
\* __call__ in the same step: the outcome is func's own exception, func and
\* sleep_func are not invoked again and the Retry object is unchanged.
C3_FatalStep ==
    \A p \in DOMAIN retry :
        (frame[p].pc = "func" /\ frame'[p].last = "fatal") =>
            /\ frame'[p].outcome = "raised"
            /\ frame'[p].pc = "idle"
            /\ frame'[p].calls = frame[p].calls
            /\ frame'[p].sleeps = frame[p].sleeps
            /\ retry'[p] = retry[p]

C3_FatalPropagates == [][C3_FatalStep]_vars

C3_Witness ==
    \E p \in DOMAIN retry :
        /\ frame[p].outcome = "raised" /\ frame[p].last = "fatal"
        /\ frame[p].calls >= 2
        /\ retry[p].attempts >= 1 /\ retry[p].attempts < retry[p].max_tries
        /\ retry[p].deadline # None

\* C4: while the i-th sleep of a call is in progress (i from 0), the
\* pre-jitter delay is min(delay * backoff^i, max_delay) and the sleep time
\* is that delay plus a jitter of 0 .. max_jitter.
C4_DelaySequence ==
    \A p \in DOMAIN retry :
        LET r == retry[p]
            f == frame[p]
        IN  f.pc = "sleep" =>
                /\ r.cur_delay = Min(r.delay * Pow(r.backoff, f.sleeps - 1), r.max_delay)
                /\ f.sleeptime - r.cur_delay \in 0 .. r.max_jitter

\* C5: _cur_delay <= max_delay in every reachable state.
C5_DelayNeverExceedsMax ==
    \A p \in DOMAIN retry : retry[p].cur_delay <= retry[p].max_delay

\* C6: copy() returns an object with fresh run state whatever the state of
\* the object copied, copy() does not change that object, and a step of
\* __call__ on one object changes no other object.
C6_CloneStep ==
    /\ \A q \in DOMAIN retry' \ DOMAIN retry :
            /\ retry'[q].attempts = 0
            /\ retry'[q].cur_delay = retry'[q].delay
            /\ retry'[q].cur_stoptime = None
            /\ frame'[q] = NewFrame
    /\ \A q \in DOMAIN retry :
            DOMAIN retry' # DOMAIN retry => retry'[q] = retry[q] /\ frame'[q] = frame[q]
    /\ \A p, q \in DOMAIN retry :
            (p # q /\ frame'[p] # frame[p]) =>
                retry'[q] = retry[q] /\ frame'[q] = frame[q]

C6_ClonesIndependent == [][C6_CloneStep]_vars

C6_Witness ==
    /\ 2 \in DOMAIN retry
    /\ frame[2].outcome = "TooManyAttempts" /\ retry[2].attempts = 1
    /\ frame[1].pc = "func" /\ retry[1].attempts = 0
    /\ frame[1].start > frame[2].start

\* C7: a call of __call__ on an object whose earlier call has ended (with
\* any outcome) starts with _attempts = 0, _cur_delay = delay and the stop
\* time computed from the new start; the reused object spends its whole
\* attempt budget before "Too many retry attempts" and is not stopped by
\* the deadline before start + deadline.
C7_ReuseStep ==
    \A p \in DOMAIN retry :
        (frame[p].outcome \in Terminal /\ frame'[p].outcome = "running") =>
            /\ retry'[p].attempts = 0
            /\ retry'[p].cur_delay = retry'[p].delay
            /\ retry'[p].cur_stoptime =
                    (IF retry[p].deadline = None THEN None
                                                 ELSE now + retry[p].deadline)
            /\ frame'[p].calls = 1 /\ frame'[p].sleeps = 0

C7_ReusedBudget ==
    \A p \in DOMAIN retry :
        frame[p].reused =>
            /\ frame[p].outcome = "TooManyAttempts" =>
                    frame[p].calls = retry[p].max_tries + 1
            /\ frame[p].outcome = "ExceededDeadline" =>
                    now + frame[p].sleeptime >= frame[p].start + retry[p].deadline

C7_Reusable == [](C7_ReusedBudget) /\ [][C7_ReuseStep]_vars

C7_Witness ==
    \E p \in DOMAIN retry :
        /\ frame[p].reused
        /\ retry[p].max_tries >= 1
        /\ frame[p].outcome = "TooManyAttempts"
        /\ frame[p].calls = retry[p].max_tries + 1
        /\ frame[p].start >= 1

(***************************************************************************)
(*             Claims about sleep, the handlers and reap_children          *)
(***************************************************************************)

\* C8: a sleep(interval) during which only child-exit signals arrived (any
\* number, at any point) returns only when at least interval has elapsed
\* since it was called.
C8_ChildExitNeverShortens ==
    (main.sleep = "returned" /\ ~main.term_in_sleep) =>
        main.ret_at - main.called_at >= main.interval

C8_Witness ==
    /\ main.sleep = "returned"
    /\ main.chld_in_sleep /\ ~main.term_in_sleep
    /\ main.interval = MaxInterval
    /\ main.ret_at - main.called_at = MaxInterval

\* C9: sys.exit() is called at most once, by the first SIGTERM; ignore_sigterm
\* is never set back to false; a SIGTERM handled while ignore_sigterm is true
\* changes none of the module's globals, calls no sys.exit() and leaves the
\* main control flow where it is.
C9_TermStep ==
    /\ ignore_sigterm => ignore_sigterm'
    /\ exits' # exits => (sig' = "SIGTERM" /\ ~ignore_sigterm /\ exits = 0)
    /\ (sig' = "SIGTERM" /\ ~ignore_sigterm) => (exits' = 1 /\ ignore_sigterm')
    /\ (sig' = "SIGTERM" /\ ignore_sigterm) =>
            /\ UNCHANGED <<ignore_sigterm, interrupted_sleep, reap_children, exits>>
            /\ main'.pc = main.pc
            /\ main'.sleep = main.sleep /\ main'.reap = main.reap

C9_ExitOnce == exits <= 1 /\ (exits = 1 <=> ignore_sigterm)

C9_TerminateSingleShot == [](C9_ExitOnce) /\ [][C9_TermStep]_vars

C9_Witness ==
    /\ exits = 1 /\ ignore_sigterm
    /\ sig = "SIGTERM"
    /\ main.sleep = "running" /\ main.term_in_sleep

\* C10: every return of reap_children() leaves the global reap_children
\* false, after the loop ended with (0, 0) and after os.waitpid raised
\* OSError alike, and OSError never reaches the caller.
C10_ReturnStep ==
    (main.reap = "running" /\ main'.reap = "returned") => reap_children' = "False"

C10_Swallowed == main.reap # "OSError"

C10_ClearedOnEveryPath == [](C10_Swallowed) /\ [][C10_ReturnStep]_vars

C10_Witness ==
    /\ main.reap = "returned" /\ main.ret = "OSError"
    /\ main.waitpids = MaxDrain + 1
    /\ reap_children = "False"
    /\ handlers_installed

\* C11: a child-exit signal is consumed at least once: while a SIGCHLD has
\* been handled and no os.waitpid call has been made since, the global
\* reap_children stays set (stated for a process that is not exiting, where
\* the claim matters).
C11_ConsumedAtLeastOnce ==
    (main.undrained /\ exits = 0) => reap_children = "True"

\* C14: reap_children() can be polled repeatedly: after any sequence of
\* SIGCHLD deliveries and earlier calls, a call by the module-level name finds
\* a callable and does not fail with TypeError.
C14_StillCallable == main.reap # "TypeError"

\* C15: the flag is false at process start and set only by SIGCHLD, so a call
\* of reap_children() with no SIGCHLD handled since process start or since the
\* previous call returned makes no os.waitpid call.
C15_NoSignalNoWaitpid ==
    (main.pc \in ReapPcs /\ ~main.chld_since_reap) => main.waitpids = 0

\* C16: sleep(interval) never returns before interval has elapsed, whatever
\* signals end time.sleep early, a SIGTERM that is ignored because
\* ignore_sigterm is set included.
C16_NeverReturnsEarly ==
    main.sleep = "returned" => main.ret_at - main.called_at >= main.interval

\* C17: interrupted_sleep is false whenever control leaves sleep(), by return
\* (interval <= 0, an uninterrupted time.sleep, after SIGCHLD interruptions)
\* and by the SystemExit of a SIGTERM handled during the sleep.
C17_LeaveStep ==
    (/\ main.pc \in SleepPcs /\ main'.pc \notin SleepPcs
     /\ sig' = "SIGTERM" => main.pc = "time.sleep") => ~interrupted_sleep'

C17_ClearedOnEveryExit == [][C17_LeaveStep]_vars

\* C18: the statements of sleep() write no global but interrupted_sleep and
\* those of reap_children() none but reap_children; a SIGCHLD handled during
\* sleep() leaves reap_children true when sleep() returns, and a true
\* reap_children is changed only inside reap_children().
C18_FrameStep ==
    /\ (sig' = "none" /\ (main.pc \in SleepPcs \/ main'.pc = "L67")) =>
            UNCHANGED <<reap_children, ignore_sigterm, exits>>
    /\ (sig' = "none" /\ (main.pc \in ReapPcs \/ main'.pc = "L83")) =>
            UNCHANGED <<interrupted_sleep, ignore_sigterm, exits>>
    /\ (main.sleep = "running" /\ main'.sleep = "returned" /\ main.chld_in_sleep) =>
            reap_children' = "True"
    /\ (reap_children = "True" /\ reap_children' # "True") => main.pc \in ReapPcs

C18_FrameEffect == [][C18_FrameStep]_vars

C18_Witness ==
    /\ main.pc = "host" /\ main.sleep = "returned" /\ sig = "none"
    /\ main.chld_in_sleep /\ ~main.term_in_sleep
    /\ reap_children = "True" /\ ~interrupted_sleep /\ ~ignore_sigterm

\* C19: with a deadline, a func that fails retryably at every call and time
\* that advances, every __call__ ends with RetryFailedError, for every
\* max_tries; with max_tries = -1 it never ends with "Too many retry
\* attempts" and ends with "Exceeded retry deadline", also when delay and
\* max_jitter are 0.
C19_Terminates ==
    (frame[1].outcome = "running") ~>
        (frame[1].outcome \in {"TooManyAttempts", "ExceededDeadline"})

C19_UnlimitedEndsAtDeadline ==
    (frame[1].outcome = "running" /\ retry[1].max_tries = -1) ~>
        (frame[1].outcome = "ExceededDeadline")

C19_UnlimitedNeverExhausted ==
    [](retry[1].max_tries = -1 => frame[1].outcome # "TooManyAttempts")

C19_EventuallyTerminalError ==
    /\ C19_Terminates
    /\ C19_UnlimitedEndsAtDeadline
    /\ C19_UnlimitedNeverExhausted

C19_Witness ==
    /\ frame[1].outcome = "ExceededDeadline"
    /\ retry[1].max_tries = -1 /\ retry[1].delay = 0 /\ retry[1].max_jitter = 0
    /\ retry[1].deadline = MaxDeadline
    /\ frame[1].calls = MaxAttempts + 1

(***************************************************************************)
(*               Claims about parse_datetime and calculate_ttl             *)
(***************************************************************************)

\* floor of a timedelta in seconds: its microseconds are never negative
FloorSeconds(td) == td.seconds

\* C12: for a parseable expiration calculate_ttl returns the floor of
\* (expiration - now) in whole seconds, hence a negative number for every
\* expiration strictly earlier than now and a non-negative one otherwise; for
\* None, the empty text and unparseable text it returns None.
C12_FloorOfRemaining ==
    (ttl.op = "calculate_ttl" /\ ttl.done) =>
        LET expiration == parse_datetime(ttl.text)
            td == Timedelta(expiration.dt, ttl.utcnow)
        IN  IF ttl.given /\ expiration.kind = "datetime"
            THEN /\ ttl.result.kind = "int"
                 /\ ttl.result.seconds = FloorSeconds(td)
                 /\ ttl.result.seconds < 0 <=> td.seconds < 0
            ELSE (~ttl.given \/ ~Matches(ttl.text)) => ttl.result.kind = "None"

\* C13: parse_datetime never raises: it returns a datetime or None; a datetime
\* only for text of the form YYYY-MM-DDTHH:MM:SS.ffffff, further digits, final
\* Z, its fields being the captured integers; text of that form whose fields
\* are not a valid calendar time yields None.
C13_NeverRaises ==
    (ttl.op = "parse_datetime" /\ ttl.done) =>
        /\ ttl.parsed.kind \in {"datetime", "None"}
        /\ ttl.parsed.kind = "datetime" =>
              /\ Matches(ttl.text)
              /\ ttl.text[Len(ttl.text)] = "Z"
              /\ ttl.parsed.dt = Groups(ttl.text)
        /\ (Matches(ttl.text) /\ ~ValidDatetime(Groups(ttl.text))) =>
              ttl.parsed.kind = "None"

====
